---- MODULE Spec2Model ----
(***************************************************************************)
(* Model of the RAG backend (rag_backend_chromadb): the ChromaDB chunk     *)
(* collection, the uploads directory and the five FastAPI handlers of      *)
(* main.py.  Every handler is an `async def` without an await, so a        *)
(* handler runs to completion before the next request is served: each      *)
(* handler is one atomic action.                                           *)
(***************************************************************************)
EXTENDS Integers, Sequences, FiniteSets, TLC

\* ------------------------------------------------------------------ bounds
\* Number of file ids uuid4 may mint in one run.
MaxFiles == 3

\* ------------------------------------------------------------ input domains
\* Python's None.
None == "<None>"
\* user_id values that own chunks: upload's Form(...) rejects the empty string.
Users == {"u1", "u2"}
\* user_id values a JSON body (Question, DeleteFileRequest) can carry.
ReqUsers == Users \cup {""}
\* Chunk texts.
Texts == {"a", "b", "c"}
\* Question texts.
Questions == {"a", "b"}
\* The files a client may upload: a name <<stem, extension>> and the bytes,
\* written as the chunk sequence the loader and the splitter produce from them.
\* Two documents share a name, one of them empty; a third has an extension
\* outside the allow-list.
UploadFiles ==
    {[filename |-> <<"a", "txt">>, content |-> <<"c", "a", "b">>],
     [filename |-> <<"a", "txt">>, content |-> <<>>],
     [filename |-> <<"c", "exe">>, content |-> <<"b">>]}
Filenames == {f.filename : f \in UploadFiles}
\* Values of the TOP_K_RESULTS environment setting: the default and a smaller one.
TopKSettings == {2, 3}
\* File ids a request can name.
FileIds == {"f" \o ToString(n) : n \in 1..MaxFiles}

\* config.py: ALLOWED_EXTENSIONS (the keys).
ALLOWED_EXTENSIONS == {"pdf", "txt", "docx", "doc"}

VARIABLES
    collection,      \* the ChromaDB collection "documents": sequence of chunk records
    disk,            \* UPLOAD_DIR: file name -> saved bytes (None when absent)
    TOP_K_RESULTS,   \* config.TOP_K_RESULTS, read once from the environment
    minted,          \* number of file ids uuid4 has produced so far
    live,            \* ghost: [file_id, user_id, n, filename, content] of each file
                     \*        ingested and not deleted
    deleted,         \* ghost: file ids for which delete_file returned success
    resp             \* the request last served and its response

vars == <<collection, disk, TOP_K_RESULTS, minted, live, deleted, resp>>

\* --------------------------------------------------------------- utilities
Range(s) == {s[i] : i \in 1..Len(s)}

Min(a, b) == IF a <= b THEN a ELSE b

\* Python truthiness of an Optional[str].
Truthy(x) == x # None /\ x # ""

\* str(HTTPException(status, detail)) as Starlette renders it.
StrHTTPException(status, detail) == ToString(status) \o ": " \o detail

\* `except Exception as e: raise HTTPException(status_code=500, detail=str(e))`
\* applied to an HTTPException raised inside the try block.
Rewrap(status, detail) == [status |-> 500, detail |-> StrHTTPException(status, detail)]

\* ------------------------------------------------------- embedding gateway
\* AzureOpenAIEmbeddings: a deterministic text -> vector map.
Embed(t) ==
    CASE t = "a" -> <<1, 0>>
      [] t = "b" -> <<1, 1>>
      [] t = "c" -> <<0, 1>>

\* embed_documents: one vector per text, in input order.
EmbedDocuments(chunks) == [i \in 1..Len(chunks) |-> Embed(chunks[i])]

Dot(u, v) == u[1] * v[1] + u[2] * v[2]

Sign(x) == IF x > 0 THEN 1 ELSE IF x < 0 THEN -1 ELSE 0

\* cos(q, x) < cos(q, y), compared without square roots:
\* cos = Dot(q,x) / (|q| |x|); signs first, then squares cross-multiplied.
CosLess(q, x, y) ==
    LET dx == Dot(q, x)
        dy == Dot(q, y)
        lx == dx * dx * Dot(y, y)
        ly == dy * dy * Dot(x, x)
    IN  IF Sign(dx) # Sign(dy) THEN Sign(dx) < Sign(dy)
        ELSE IF Sign(dx) >= 0 THEN lx < ly
        ELSE lx > ly

\* ------------------------------------------------------- ChromaDB collection
\* The collection is ChromaDB's; its operations follow the library's contract:
\* get / delete / query apply the where clause exactly, and query returns the
\* n_results nearest matching records under cosine distance.
\* A where clause: [user_id, file_id], None meaning "no predicate on the field".
Matches(c, where) ==
    /\ (where.user_id # None => c.user_id = where.user_id)
    /\ (where.file_id # None => c.file_id = where.file_id)

\* Positions of the collection matching a where clause.
MatchIdx(coll, where) == {i \in 1..Len(coll) : Matches(coll[i], where)}

\* collection.get(where=...): the matching records in insertion order.
CollectionGet(coll, where) == SelectSeq(coll, LAMBDA c : Matches(c, where))

\* collection.delete(where=...).
CollectionDelete(coll, where) == SelectSeq(coll, LAMBDA c : ~Matches(c, where))

\* collection.add(...): appends the batch.
CollectionAdd(coll, batch) == coll \o batch

\* Candidates no other candidate beats in similarity to q.
Best(coll, cand, q) ==
    {i \in cand : \A j \in cand : ~CosLess(q, coll[i].embedding, coll[j].embedding)}

\* collection.query(query_embeddings=[q], n_results=k, where=...): every
\* ranking the engine may return (ties in any order), as position sequences.
RECURSIVE Rank(_, _, _, _)
Rank(coll, cand, q, k) ==
    IF k = 0 \/ cand = {} THEN {<<>>}
    ELSE UNION {{<<i>> \o r : r \in Rank(coll, cand \ {i}, q, k - 1)} :
                i \in Best(coll, cand, q)}

CollectionQuery(coll, q, k, where) == Rank(coll, MatchIdx(coll, where), q, k)

\* ------------------------------------------------------------- VectorStore
\* uuid.uuid4(): a fresh id per call.
Uuid4 == "f" \o ToString(minted + 1)

\* datetime.now().isoformat(): one reading per ingestion.
Now == minted + 1

\* f"{file_id}_chunk_{i}"
ChunkId(file_id, i) == file_id \o "_chunk_" \o ToString(i)

\* ChunkRecords numbering the chunks from 1 (enumerate(chunks, 1)).
ChunkRecords_one_based(chunks, user_id, filename, file_id, timestamp) ==
    [k \in 1..Len(chunks) |->
        [id           |-> ChunkId(file_id, k - 1),
         embedding    |-> EmbedDocuments(chunks)[k],
         text         |-> chunks[k],
         user_id      |-> user_id,
         file_id      |-> file_id,
         filename     |-> filename,
         chunk_index  |-> k,
         total_chunks |-> Len(chunks),
         timestamp    |-> timestamp]]

\* ChunkRecords pairing chunk k with the embedding of the k-th chunk from the
\* end (the embedding list reversed against the chunk list).
ChunkRecords_embeddings_reversed(chunks, user_id, filename, file_id, timestamp) ==
    [k \in 1..Len(chunks) |->
        [id           |-> ChunkId(file_id, k - 1),
         embedding    |-> EmbedDocuments(chunks)[Len(chunks) + 1 - k],
         text         |-> chunks[k],
         user_id      |-> user_id,
         file_id      |-> file_id,
         filename     |-> filename,
         chunk_index  |-> k - 1,
         total_chunks |-> Len(chunks),
         timestamp    |-> timestamp]]

\* The records add_documents builds for one file (chunk_index is 0-based).
ChunkRecords(chunks, user_id, filename, file_id, timestamp) ==
    [k \in 1..Len(chunks) |->
        [id           |-> ChunkId(file_id, k - 1),
         embedding    |-> EmbedDocuments(chunks)[k],
         text         |-> chunks[k],
         user_id      |-> user_id,
         file_id      |-> file_id,
         filename     |-> filename,
         chunk_index  |-> k - 1,
         total_chunks |-> Len(chunks),
         timestamp    |-> timestamp]]

\* add_documents embedding and inserting chunk by chunk: when the embedding
\* call fails on the last chunk the earlier ones are already stored.
add_documents_chunkwise(coll, chunks, user_id, filename, fault) ==
    IF chunks = <<>> THEN [file_id |-> None, coll |-> coll, error |-> ""]
    ELSE IF fault = "embed"
         THEN [file_id |-> None,
               coll    |-> CollectionAdd(coll,
                             SubSeq(ChunkRecords(chunks, user_id, filename, Uuid4, Now),
                                    1, Len(chunks) - 1)),
               error   |-> "embedding failed"]
    ELSE [file_id |-> Uuid4,
          coll    |-> CollectionAdd(coll,
                        ChunkRecords(chunks, user_id, filename, Uuid4, Now)),
          error   |-> ""]

\* VectorStore.add_documents: [file_id, coll, error]; coll is the collection
\* the call leaves behind, whether it returns or raises.
add_documents(coll, chunks, user_id, filename, fault) ==
    IF chunks = <<>> THEN [file_id |-> None, coll |-> coll, error |-> ""]
    ELSE IF fault = "embed"
         THEN [file_id |-> None, coll |-> coll, error |-> "embedding failed"]
    ELSE [file_id |-> Uuid4,
          coll    |-> CollectionAdd(coll,
                        ChunkRecords(chunks, user_id, filename, Uuid4, Now)),
          error   |-> ""]

\* The where clause VectorStore.search builds from its Optional arguments.
SearchWhere(user_id, file_id) ==
    IF Truthy(user_id) /\ Truthy(file_id)
        THEN [user_id |-> user_id, file_id |-> file_id]
    ELSE IF Truthy(user_id) THEN [user_id |-> user_id, file_id |-> None]
    ELSE IF Truthy(file_id) THEN [user_id |-> None, file_id |-> file_id]
    ELSE [user_id |-> None, file_id |-> None]

\* A chunk's metadata dict as ChromaDB returns it.
Metadata(c) ==
    [user_id      |-> c.user_id,
     file_id      |-> c.file_id,
     filename     |-> c.filename,
     chunk_index  |-> c.chunk_index,
     total_chunks |-> c.total_chunks,
     timestamp    |-> c.timestamp]

\* search querying without a where clause and filtering the TOP_K_RESULTS
\* hits afterwards (truncate, then filter).
search_post_filter(coll, query, user_id, file_id) ==
    {LET hits == SelectSeq(r, LAMBDA i : Matches(coll[i], SearchWhere(user_id, file_id)))
     IN  [k \in 1..Len(hits) |->
            [text |-> coll[hits[k]].text, metadata |-> Metadata(coll[hits[k]])]] :
        r \in CollectionQuery(coll, Embed(query), TOP_K_RESULTS,
                              [user_id |-> None, file_id |-> None])}

\* search that never passes its where clause to the query.
search_ignore_where(coll, query, user_id, file_id) ==
    {[k \in 1..Len(r) |-> [text |-> coll[r[k]].text, metadata |-> Metadata(coll[r[k]])]] :
        r \in CollectionQuery(coll, Embed(query), TOP_K_RESULTS,
                              [user_id |-> None, file_id |-> None])}

\* VectorStore.search: the set of result lists it may return,
\* each a sequence of {"text", "metadata"}.
search(coll, query, user_id, file_id) ==
    {[k \in 1..Len(r) |-> [text |-> coll[r[k]].text, metadata |-> Metadata(coll[r[k]])]] :
        r \in CollectionQuery(coll, Embed(query), TOP_K_RESULTS,
                              SearchWhere(user_id, file_id))}

\* The registry row built from one metadata dict.
FileRow(m) ==
    [file_id      |-> m.file_id,
     filename     |-> m.filename,
     upload_time  |-> m.timestamp,
     total_chunks |-> m.total_chunks]

\* get_user_files without the `if file_id not in files` test: a row per chunk.
RECURSIVE GroupByFile_no_dedupe(_, _)
GroupByFile_no_dedupe(metas, files) ==
    IF metas = <<>> THEN files
    ELSE GroupByFile_no_dedupe(Tail(metas), Append(files, FileRow(Head(metas))))

\* The `files` dict of get_user_files: first-seen metadata per file_id,
\* in insertion order.
RECURSIVE GroupByFile(_, _)
GroupByFile(metas, files) ==
    IF metas = <<>> THEN files
    ELSE IF \E k \in 1..Len(files) : files[k].file_id = Head(metas).file_id
         THEN GroupByFile(Tail(metas), files)
         ELSE GroupByFile(Tail(metas), Append(files, FileRow(Head(metas))))

\* VectorStore.get_user_files.
get_user_files(coll, user_id) ==
    LET results == CollectionGet(coll, [user_id |-> user_id, file_id |-> None])
    IN  IF results = <<>> THEN <<>>
        ELSE GroupByFile([k \in 1..Len(results) |-> Metadata(results[k])], <<>>)

\* delete_file removing only the file's first chunk (delete by one id).
VS_delete_file_first_chunk(coll, file_id, user_id) ==
    SelectSeq(coll, LAMBDA c : ~(c.file_id = file_id /\ c.user_id = user_id
                                 /\ c.chunk_index = 0))

\* delete_file whose where clause lost the file_id predicate.
VS_delete_file_by_user(coll, file_id, user_id) ==
    CollectionDelete(coll, [user_id |-> user_id, file_id |-> None])

\* VectorStore.delete_file: the collection after the delete (returns True).
VS_delete_file(coll, file_id, user_id) ==
    CollectionDelete(coll, [user_id |-> user_id, file_id |-> file_id])

\* get_file_info whose where clause lost the user_id predicate.
get_file_info_any_owner(coll, file_id, user_id) ==
    LET results == CollectionGet(coll, [user_id |-> None, file_id |-> file_id])
    IN  IF results = <<>> THEN <<>>
        ELSE <<FileRow(Metadata(results[1]))>>

\* VectorStore.get_file_info: Optional[Dict], written <<>> for None and
\* <<row>> for a registry row (limit=1 keeps the first match).
get_file_info(coll, file_id, user_id) ==
    LET results == CollectionGet(coll, [user_id |-> user_id, file_id |-> file_id])
    IN  IF results = <<>> THEN <<>>
        ELSE <<FileRow(Metadata(results[1]))>>

\* ------------------------------------------------------ DocumentProcessor
\* os.path.splitext(file_path)[1].lower()[1:] on a <<stem, extension>> name.
Ext(filename) == filename[2]

\* DocumentProcessor.process_document on a file just saved with `content`:
\* [chunks, error].
process_document(filename, content, fault) ==
    IF Ext(filename) \notin ALLOWED_EXTENSIONS
        THEN [chunks |-> <<>>,
              error  |-> "Error processing document: Unsupported file type: "
                            \o Ext(filename)]
    ELSE IF fault = "loader"
        THEN [chunks |-> <<>>, error |-> "Error processing document: load failed"]
    ELSE [chunks |-> content, error |-> ""]

\* ------------------------------------------------------------- responses
\* The request last served with its response.  Optional values are written
\* <<>> (None) or <<v>>.
\*   returned : the value the handler returned, when it returned one
\*   info     : what get_file_info gave the handler
\*   rows     : the "files" list of list_user_files
\*   chunks   : relevant_chunks of ask_question
\*   llm      : number of llm.invoke calls
\*   where    : the where clause search handed to collection.query
NoResp ==
    [op |-> "init", user_id |-> None, file_id |-> None, filename |-> <<>>,
     content |-> <<>>, text |-> None, fault |-> "none",
     status |-> 0, detail |-> "", info |-> <<>>, rows |-> <<>>,
     chunks |-> <<>>, returned |-> <<>>, llm |-> 0,
     where |-> [user_id |-> None, file_id |-> None]]

\* A handler's outcome laid over the request it served.
Respond(req, outcome) == outcome @@ req @@ NoResp

\* `except Exception as e: raise HTTPException(status_code=500, detail=str(e))`
Failure500(detail) == [status |-> 500, detail |-> detail]

\* response_model=FileResponse: file_id must be a str.
ValidFileResponse(body) == body.file_id # None

\* get_file_content's media type from the file name's extension.
MediaType(filename) ==
    CASE Ext(filename) = "pdf"  -> "application/pdf"
      [] Ext(filename) = "txt"  -> "text/plain"
      [] Ext(filename) = "doc"  -> "application/msword"
      [] Ext(filename) = "docx" ->
            "application/vnd.openxmlformats-officedocument.wordprocessingml.document"
      [] OTHER -> "application/octet-stream"

SENTINEL == "I couldn't find any relevant information to answer your question."

\* ------------------------------------------------------------------- Init
Init ==
    /\ collection = <<>>
    /\ disk = [f \in Filenames |-> None]
    /\ TOP_K_RESULTS \in TopKSettings
    /\ minted = 0
    /\ live = {}
    /\ deleted = {}
    /\ resp = NoResp

\* --------------------------------------------------------------- handlers
\* POST /upload/
upload_file(filename, content, user_id, fault) ==
    LET req  == [op |-> "upload", user_id |-> user_id, filename |-> filename,
                 content |-> content, fault |-> fault]
        proc == process_document(filename, content, fault)
        add  == add_documents(collection, proc.chunks, user_id, filename, fault)
        body == [file_id |-> add.file_id, filename |-> filename,
                 chunks |-> Len(proc.chunks)]
    IN  /\ disk' = [disk EXCEPT ![filename] = content]
        /\ UNCHANGED <<TOP_K_RESULTS, deleted>>
        /\ IF proc.error # ""
           THEN /\ resp' = Respond(req, Failure500(proc.error))
                /\ UNCHANGED <<collection, minted, live>>
           ELSE IF add.error # ""
           THEN /\ resp' = Respond(req, Failure500(add.error))
                /\ collection' = add.coll
                /\ UNCHANGED <<minted, live>>
           ELSE /\ add.file_id # None => minted < MaxFiles
                /\ collection' = add.coll
                /\ minted' = IF add.file_id = None THEN minted ELSE minted + 1
                /\ live' = IF add.file_id = None THEN live
                           ELSE live \cup {[file_id |-> add.file_id,
                                            user_id |-> user_id,
                                            n       |-> Len(proc.chunks),
                                            filename |-> filename,
                                            content  |-> content]}
                /\ resp' = IF ValidFileResponse(body)
                           THEN Respond(req, [status |-> 200, returned |-> <<body>>])
                           ELSE Respond(req, [status |-> 500,
                                              detail |-> "Internal Server Error",
                                              returned |-> <<body>>])

\* The "sources" list of an answer.
Sources(relevant_chunks) ==
    [k \in 1..Len(relevant_chunks) |->
        [filename    |-> relevant_chunks[k].metadata.filename,
         chunk_index |-> relevant_chunks[k].metadata.chunk_index]]

\* POST /ask/
ask_question(text, user_id, file_id, fault) ==
    LET req == [op |-> "ask", user_id |-> user_id, file_id |-> file_id,
                text |-> text, fault |-> fault,
                where |-> SearchWhere(user_id, file_id)]
    IN  /\ UNCHANGED <<collection, disk, TOP_K_RESULTS, minted, live, deleted>>
        /\ IF fault = "embed"
           THEN resp' = Respond(req, Failure500("embedding failed"))
           ELSE \E relevant_chunks \in search(collection, text, user_id, file_id) :
                  IF relevant_chunks = <<>>
                  THEN resp' = Respond(req, [status |-> 200,
                                             returned |-> <<[answer |-> SENTINEL]>>])
                  ELSE IF fault = "llm"
                  THEN resp' = Respond(req, [status |-> 500, llm |-> 1,
                                             chunks |-> relevant_chunks,
                                             detail |-> "completion failed"])
                  ELSE resp' = Respond(req,
                                 [status |-> 200, llm |-> 1,
                                  chunks |-> relevant_chunks,
                                  returned |-> <<[answer  |-> "response.content",
                                                  sources |-> Sources(relevant_chunks)]>>])

\* GET /files/{user_id}
list_user_files(user_id) ==
    /\ resp' = Respond([op |-> "list", user_id |-> user_id],
                       [status |-> 200, rows |-> get_user_files(collection, user_id)])
    /\ UNCHANGED <<collection, disk, TOP_K_RESULTS, minted, live, deleted>>

\* DELETE /files/ : the response, the collection and the uploads directory
\* the handler leaves behind.
delete_file_outcome(coll, dsk, file_id, user_id, fault) ==
    LET file_info == get_file_info(coll, file_id, user_id)
    IN  IF file_info = <<>>
        THEN [resp |-> Rewrap(404, "File not found or access denied"),
              coll |-> coll, disk |-> dsk]
        ELSE [resp |-> [status |-> 200, info |-> file_info,
                        returned |-> <<[message |-> "File deleted successfully"]>>],
              coll |-> VS_delete_file(coll, file_id, user_id),
              disk |-> IF dsk[file_info[1].filename] # None /\ fault # "remove"
                       THEN [dsk EXCEPT ![file_info[1].filename] = None]
                       ELSE dsk]

delete_file(file_id, user_id, fault) ==
    LET req == [op |-> "delete", user_id |-> user_id, file_id |-> file_id,
                fault |-> fault]
        out == delete_file_outcome(collection, disk, file_id, user_id, fault)
    IN  /\ resp' = Respond(req, out.resp)
        /\ collection' = out.coll
        /\ disk' = out.disk
        /\ live' = IF out.resp.status = 200
                   THEN {f \in live : f.file_id # file_id} ELSE live
        /\ deleted' = IF out.resp.status = 200
                      THEN deleted \cup {file_id} ELSE deleted
        /\ UNCHANGED <<TOP_K_RESULTS, minted>>

\* GET /files/{user_id}/{file_id}/content : the response.
get_file_content_outcome(coll, dsk, user_id, file_id) ==
    LET file_info == get_file_info(coll, file_id, user_id)
    IN  IF file_info = <<>>
        THEN Rewrap(404, "File not found or access denied")
        ELSE IF dsk[file_info[1].filename] = None
        THEN Rewrap(404, "File not found") @@ [info |-> file_info]
        ELSE [status |-> 200, info |-> file_info,
              returned |-> <<[path       |-> file_info[1].filename,
                              media_type |-> MediaType(file_info[1].filename),
                              filename   |-> file_info[1].filename,
                              content    |-> dsk[file_info[1].filename]]>>]

get_file_content(user_id, file_id) ==
    /\ resp' = Respond([op |-> "content", user_id |-> user_id, file_id |-> file_id],
                       get_file_content_outcome(collection, disk, user_id, file_id))
    /\ UNCHANGED <<collection, disk, TOP_K_RESULTS, minted, live, deleted>>

\* ------------------------------------------------------------ transitions
\* The requests served: every question, and one question under each failure
\* of the embedding and completion providers.
AskInputs ==
    [text : Questions, user_id : ReqUsers, file_id : FileIds \cup {None},
     fault : {"none"}]
    \cup [text : {"a"}, user_id : {"u1"}, file_id : {None}, fault : {"embed", "llm"}]

\* Every delete request, and one user's deletes with os.remove failing.
DeleteInputs ==
    [file_id : FileIds, user_id : ReqUsers, fault : {"none"}]
    \cup [file_id : FileIds, user_id : {"u1"}, fault : {"remove"}]

\* Every upload, and the uploads of one document under each failure of the
\* loader and of the embedding provider.
UploadInputs ==
    [file : UploadFiles, user_id : Users, fault : {"none"}]
    \cup [file : {[filename |-> <<"a", "txt">>, content |-> <<"c", "a", "b">>]},
          user_id : Users, fault : {"loader", "embed"}]

Upload ==
    \E u \in UploadInputs :
        upload_file(u.file.filename, u.file.content, u.user_id, u.fault)

Ask == \E q \in AskInputs : ask_question(q.text, q.user_id, q.file_id, q.fault)

ListFiles == \E user_id \in Users : list_user_files(user_id)

Delete == \E d \in DeleteInputs : delete_file(d.file_id, d.user_id, d.fault)

Content == \E user_id \in Users, file_id \in FileIds : get_file_content(user_id, file_id)

Next == Upload \/ Ask \/ ListFiles \/ Delete \/ Content

Spec == Init /\ [][Next]_vars

\* =================================================================== claims
\* File ids of the files `user_id` ingested and has not deleted.
OwnedBy(user_id) == {f.file_id : f \in {g \in live : g.user_id = user_id}}

\* Number of chunks the collection holds for a file id.
StoredCount(file_id) ==
    Cardinality({i \in 1..Len(collection) : collection[i].file_id = file_id})

\* C1: tenant isolation.  A question answered, a listing or a file lookup on
\* behalf of a user never returns a chunk or a file row of another user,
\* whatever user_id string the request carries.
C1_TenantIsolation ==
    /\ resp.op = "ask" =>
         \A k \in 1..Len(resp.chunks) : resp.chunks[k].metadata.user_id = resp.user_id
    /\ resp.op = "list" =>
         \A k \in 1..Len(resp.rows) : resp.rows[k].file_id \in OwnedBy(resp.user_id)
    /\ (resp.op = "content" /\ resp.info # <<>>) =>
         resp.info[1].file_id \in OwnedBy(resp.user_id)

\* C2: idempotent deletion.  A delete of a file that an earlier delete already
\* removed reports "not found" (404), never a generic failure.
C2_SecondDeleteNotFound ==
    (resp.op = "delete" /\ resp.file_id \in deleted /\ resp.info = <<>>) =>
        resp.status = 404

\* C3: empty document.  When the uploaded document yields zero chunks the
\* upload reports EmptyDocument and the handler returns no result carrying a
\* file identity and a chunk count.
C3_EmptyDocumentReported ==
    (/\ resp.op = "upload" /\ resp.fault = "none"
     /\ process_document(resp.filename, resp.content, resp.fault)
            = [chunks |-> <<>>, error |-> ""]) =>
        (resp.returned = <<>> /\ resp.detail = "EmptyDocument")

\* C4: delete visibility.  Once a delete of F has returned success, the
\* collection holds no chunk of F and no later question, listing or file
\* lookup returns a chunk or a row with file_id = F.
C4_DeleteVisibility ==
    /\ \A i \in 1..Len(collection) : collection[i].file_id \notin deleted
    /\ resp.op = "ask" =>
         \A k \in 1..Len(resp.chunks) : resp.chunks[k].metadata.file_id \notin deleted
    /\ resp.op = "list" =>
         \A k \in 1..Len(resp.rows) : resp.rows[k].file_id \notin deleted
    /\ (resp.op = "content" /\ resp.info # <<>>) =>
         resp.info[1].file_id \notin deleted
    /\ (resp.op = "delete" /\ resp.info # <<>>) =>
         resp.info[1].file_id \notin (deleted \ {resp.file_id})

\* C4 witness: after a successful delete of F its owner asks about F while
\* chunks of other files are still stored, and gets nothing.
C4_Witness ==
    /\ resp.op = "ask" /\ resp.file_id \in deleted /\ resp.user_id \in Users
    /\ resp.chunks = <<>>
    /\ \E i \in 1..Len(collection) : collection[i].user_id = resp.user_id

\* The collection without the chunks of file F that carry user U.
Without(coll, F, U) == SelectSeq(coll, LAMBDA c : ~(c.file_id = F /\ c.user_id = U))

\* C5: delete scope.  A delete request for (F, U) removes exactly the chunks
\* with file_id = F and user_id = U and leaves every other chunk as it was;
\* requested by a user who does not own F it removes nothing.
C5_DeleteScope ==
    [][resp'.op = "delete" =>
         /\ collection' = Without(collection, resp'.file_id, resp'.user_id)
         /\ resp'.file_id \notin OwnedBy(resp'.user_id) => collection' = collection
         /\ resp'.status = 200 => StoredCount(resp'.file_id) > 0]_vars

\* C5 witness: a successful delete that left another file of the same user
\* and a file of another user in place.
C5_Witness ==
    /\ resp.op = "delete" /\ resp.status = 200
    /\ \E i \in 1..Len(collection) : collection[i].user_id = resp.user_id
    /\ \E i \in 1..Len(collection) : collection[i].user_id # resp.user_id

\* C6: index contiguity.  For every file id in the collection all chunks carry
\* the same user_id, filename, timestamp and total_chunks = N, N is the number
\* of stored chunks of the file, and chunk_index takes each value of 0..N-1
\* exactly once.
C6_IndexContiguity ==
    \A i \in 1..Len(collection) :
        LET c    == collection[i]
            mine == {j \in 1..Len(collection) : collection[j].file_id = c.file_id}
        IN  /\ \A j \in mine :
                  /\ collection[j].total_chunks = c.total_chunks
                  /\ collection[j].user_id = c.user_id
                  /\ collection[j].filename = c.filename
                  /\ collection[j].timestamp = c.timestamp
            /\ c.total_chunks = Cardinality(mine)
            /\ \A n \in 0..(c.total_chunks - 1) :
                  Cardinality({j \in mine : collection[j].chunk_index = n}) = 1

\* C6 witness: a three-chunk file is stored next to another file after some
\* file was deleted.
C6_Witness ==
    /\ deleted # {}
    /\ \E i \in 1..Len(collection) : collection[i].total_chunks = 3
    /\ \E i, j \in 1..Len(collection) : collection[i].file_id # collection[j].file_id

\* The position in the collection of the chunk a search result shows.
StoredPos(res) ==
    CHOOSE i \in 1..Len(collection) :
        /\ collection[i].file_id = res.metadata.file_id
        /\ collection[i].chunk_index = res.metadata.chunk_index

\* C7: filtered top-K search.  A search returns exactly min(top_k, M) results,
\* top_k being TOP_K_RESULTS and M the number of stored chunks matching its
\* filter (the where clause handed to collection.query); the results are
\* distinct stored chunks (text and metadata) that match the filter, in
\* descending similarity to the query, and no matching chunk left out is
\* strictly more similar than a returned one.
C7_FilteredTopK ==
    (resp.op = "ask" /\ resp.fault # "embed") =>
        LET q    == Embed(resp.text)
            cand == MatchIdx(collection, resp.where)
            n    == Len(resp.chunks)
            pos  == [k \in 1..n |-> StoredPos(resp.chunks[k])]
            emb(k) == collection[pos[k]].embedding
        IN  /\ n = Min(TOP_K_RESULTS, Cardinality(cand))
            /\ \A k \in 1..n :
                  /\ pos[k] \in cand
                  /\ resp.chunks[k].text = collection[pos[k]].text
                  /\ resp.chunks[k].metadata = Metadata(collection[pos[k]])
            /\ \A k, m \in 1..n : k # m => pos[k] # pos[m]
            /\ \A k \in 1..(n - 1) : ~CosLess(q, emb(k), emb(k + 1))
            /\ \A i \in cand \ Range(pos) :
                  \A k \in 1..n : ~CosLess(q, emb(k), collection[i].embedding)

\* C7 witness: a question restricted to one three-chunk file with
\* TOP_K_RESULTS = 2 is answered from exactly two of its chunks while the
\* same user has another file stored.
C7_Witness ==
    /\ resp.op = "ask" /\ resp.fault = "none" /\ TOP_K_RESULTS = 2
    /\ resp.where.user_id # None /\ resp.where.file_id # None
    /\ Cardinality(MatchIdx(collection, resp.where)) = 3
    /\ Len(resp.chunks) = 2
    /\ \E i \in 1..Len(collection) :
          /\ collection[i].user_id = resp.user_id
          /\ collection[i].file_id # resp.file_id

\* C8: file registry listing.  A listing for U has exactly one row per file
\* U ingested and has not deleted, no row twice, none of another user or of a
\* deleted file, and each row's total_chunks is the number of chunks stored
\* for that file.
C8_FileRegistryListing ==
    resp.op = "list" =>
        /\ {resp.rows[k].file_id : k \in 1..Len(resp.rows)} = OwnedBy(resp.user_id)
        /\ Len(resp.rows) = Cardinality(OwnedBy(resp.user_id))
        /\ \A k \in 1..Len(resp.rows) :
              /\ resp.rows[k].total_chunks = StoredCount(resp.rows[k].file_id)
              /\ resp.rows[k].file_id \notin deleted

\* C8 witness: a listing of two rows for a user while another user's file
\* is stored too.
C8_Witness ==
    /\ resp.op = "list" /\ Len(resp.rows) = 2
    /\ \E i \in 1..Len(collection) : collection[i].user_id # resp.user_id

\* The collection without file F; the chunks of user U alone.
RemoveFile(coll, F) == SelectSeq(coll, LAMBDA c : c.file_id # F)
OwnChunks(coll, U) == SelectSeq(coll, LAMBDA c : c.user_id = U)

\* What the client sees of a response.
Outcome(r) ==
    LET full == r @@ NoResp
    IN  [status |-> full.status, detail |-> full.detail, info |-> full.info,
         returned |-> full.returned]

\* F is stored and belongs to a user other than U.
Foreign(F, U) == \E f \in live : f.file_id = F /\ f.user_id # U

\* C9: no existence leak.  A file lookup, delete or content request by U for a
\* file F of another user has the outcome it has when F does not exist at all
\* (get_file_info gives None in both), and a content request has the same
\* outcome in the collection reduced to U's own chunks.
C9_NoExistenceLeak ==
    /\ (resp.op = "content" /\ Foreign(resp.file_id, resp.user_id)) =>
          /\ resp.info = <<>>
          /\ resp.status # 200
          /\ Outcome(resp) =
               Outcome(get_file_content_outcome(RemoveFile(collection, resp.file_id),
                                                disk, resp.user_id, resp.file_id))
    /\ (resp.op = "delete" /\ Foreign(resp.file_id, resp.user_id)) =>
          /\ resp.info = <<>>
          /\ resp.status # 200
          /\ Outcome(resp) =
               Outcome(delete_file_outcome(RemoveFile(collection, resp.file_id),
                                           disk, resp.file_id, resp.user_id,
                                           resp.fault).resp)
    /\ resp.op = "content" =>
          Outcome(resp) =
            Outcome(get_file_content_outcome(OwnChunks(collection, resp.user_id),
                                             disk, resp.user_id, resp.file_id))

\* C9 witness: a delete request for a stored file of another user, whose
\* saved upload is on disk.
C9_Witness ==
    /\ resp.op = "delete" /\ Foreign(resp.file_id, resp.user_id)
    /\ resp.user_id \in Users
    /\ \E i \in 1..Len(collection) :
          /\ collection[i].file_id = resp.file_id
          /\ disk[collection[i].filename] # None

\* C10: an empty result is a normal outcome.  When the where clause of a
\* search matches no chunk the search returns an empty list, and the answer is
\* the sentinel, without sources, as a successful response, with no call of
\* the completion model.
C10_EmptyResultIsNormal ==
    (/\ resp.op = "ask" /\ resp.fault # "embed"
     /\ MatchIdx(collection, resp.where) = {}) =>
        /\ resp.chunks = <<>>
        /\ resp.status = 200
        /\ resp.returned = <<[answer |-> SENTINEL]>>
        /\ resp.llm = 0

\* C10 witness: a user without chunks asks while the collection holds
\* another user's chunks.
C10_Witness ==
    /\ resp.op = "ask" /\ resp.user_id \in Users
    /\ MatchIdx(collection, resp.where) = {}
    /\ collection # <<>>
    /\ resp.status = 200

\* C11: index-aligned pairing on ingestion.  For every file F ingested from
\* the chunk sequence [t0..t(n-1)] and not deleted, and every i in 0..n-1, the
\* stored record with id "{F}_chunk_{i}" has text ti, the i-th element of the
\* batched embedding result for the sequence, and chunk_index = i; all record
\* ids in the collection are pairwise distinct.
C11_IndexAlignedPairing ==
    /\ \A f \in live :
          \A i \in 0..(Len(f.content) - 1) :
              \E j \in 1..Len(collection) :
                  /\ collection[j].id = ChunkId(f.file_id, i)
                  /\ collection[j].text = f.content[i + 1]
                  /\ collection[j].embedding = EmbedDocuments(f.content)[i + 1]
                  /\ collection[j].chunk_index = i
    /\ \A i, j \in 1..Len(collection) :
          i # j => collection[i].id # collection[j].id

\* C11 witness: an upload of a three-chunk document has just been ingested
\* next to an earlier ingestion of a document of the same name.
C11_Witness ==
    /\ resp.op = "upload" /\ resp.status = 200 /\ Len(resp.content) = 3
    /\ \E f, g \in live :
          /\ f.file_id = resp.returned[1].file_id
          /\ g.file_id # f.file_id
          /\ g.filename = f.filename

\* C12: failed ingestion leaves the chunk store unchanged.  An upload that
\* fails before the batch insert (unsupported extension, loader failure,
\* embedding failure) leaves the collection exactly as it was before the
\* request, so no chunk of that file is persisted.
C12_FailedIngestionNoWrite ==
    [][(/\ resp'.op = "upload"
        /\ \/ process_document(resp'.filename, resp'.content, resp'.fault).error # ""
           \/ resp'.fault = "embed") =>
         /\ resp'.status = 500
         /\ resp'.returned = <<>>
         /\ collection' = collection]_vars

\* C12 witness: an upload has failed in the embedding call while the
\* collection holds chunks of an earlier file of the same name.
C12_Witness ==
    /\ resp.op = "upload" /\ resp.fault = "embed" /\ resp.status = 500
    /\ \E i \in 1..Len(collection) : collection[i].filename = resp.filename

\* C13: physical file integrity per registered file.  For every file F
\* ingested and not deleted, the content request of its owner is served, and
\* with the bytes uploaded in the request that created F; no upload or delete
\* of another file overwrites or removes them.
C13_PhysicalFileIntegrity ==
    \A f \in live :
        LET out == get_file_content_outcome(collection, disk, f.user_id, f.file_id)
        IN  /\ out.status = 200
            /\ out.returned[1].content = f.content

====
